---- MODULE Spec2Model ----
(***************************************************************************)
(* Model of employee_scoring_app2.py: the scoring function                 *)
(* calculate_score, the per-record evaluation evaluate_all_operations, the *)
(* two groupby/mean aggregations and the three Streamlit handlers (form    *)
(* submit, clear button, scoring button) acting on st.session_state.       *)
(*                                                                         *)
(* The Chinese labels of the source are written in ASCII:                  *)
(*   "safety_hazard" = 安全隐患, "other_error" = 其他错误, ... (see          *)
(*   ERROR_PENALTIES below, same order as the source table);               *)
(*   "yes"/"no" = 是/否 (has_safety_hazard_display).                        *)
(* A pandas DataFrame is a sequence of row records; the empty DataFrame is *)
(* <<>>.  A mean (float sum/count in pandas) is the exact rational         *)
(* [num, den] in lowest terms.                                             *)
(***************************************************************************)
EXTENDS Integers, Sequences, FiniteSets

VARIABLES
    operations,                   \* st.session_state.operations
    individual_op_scores_df,      \* st.session_state.individual_op_scores_df
    daily_employee_scores_df,     \* st.session_state.daily_employee_scores_df
    overall_employee_scores_df,   \* st.session_state.overall_employee_scores_df
    message,                      \* the st.success / st.warning notice of the last run
    arg_completion,               \* calculate_score: completion_degree argument
    arg_errors,                   \* calculate_score: error_types_list argument (being built)
    calls                         \* the last two calls of calculate_score, newest first

vars == <<operations, individual_op_scores_df, daily_employee_scores_df,
          overall_employee_scores_df, message, arg_completion, arg_errors, calls>>

session_state == <<operations, individual_op_scores_df, daily_employee_scores_df,
                   overall_employee_scores_df>>

-----------------------------------------------------------------------------
(* Bounds of the model *)

\* longest record store explored
MaxOps == 3

\* longest error_types_list handed to calculate_score directly
MaxErrLen == 3

\* how far outside [0,100] the completion degree handed to calculate_score goes
OutOfRange == 10

-----------------------------------------------------------------------------
(* Penalty table *)

SAFETY_HAZARD == "safety_hazard"

OTHER_ERROR == "other_error"

ERROR_PENALTIES ==
    [ safety_hazard         |-> 30,
      waste_disposal        |-> 15,
      handover_record       |-> 12,
      no_status_tag         |-> 10,
      liquid_seal           |-> 10,
      parameter_error       |-> 10,
      sequence_error        |-> 8,
      missed_count          |-> 8,
      misplaced             |-> 7,
      not_on_time           |-> 7,
      cleaning_incomplete   |-> 6,
      nonstandard_operation |-> 5,
      tool_not_returned     |-> 4,
      record_nonstandard    |-> 3,
      other_error           |-> 5 ]

PREDEFINED_ERROR_OPTIONS ==
    << "missed_count", "misplaced", "handover_record", "no_status_tag",
       "cleaning_incomplete", "waste_disposal", "tool_not_returned",
       "liquid_seal", "record_nonstandard", "sequence_error",
       "parameter_error", "nonstandard_operation", "not_on_time", "other_error" >>

\* "item: description" of the ten PREDEFINED_OPERATION_DESCRIPTIONS
FORMATTED_OPERATION_OPTIONS ==
    << "intermediate_product: ...", "sample_bottle: ...", "waste: ...",
       "documents: ...", "tools: ...", "waste_container: ...",
       "equipment: ...", "workplace: ...", "floor_drain: ...",
       "cleaning_tools: ..." >>

\* ERROR_PENALTIES.get(error_type, ERROR_PENALTIES.get("其他错误", 5))
penalty(error_type) ==
    IF error_type \in DOMAIN ERROR_PENALTIES
    THEN ERROR_PENALTIES[error_type]
    ELSE IF OTHER_ERROR \in DOMAIN ERROR_PENALTIES
         THEN ERROR_PENALTIES[OTHER_ERROR]
         ELSE 5

-----------------------------------------------------------------------------
(* calculate_score *)

Max(a, b) == IF a >= b THEN a ELSE b

Min(a, b) == IF a <= b THEN a ELSE b

RECURSIVE total_error_penalty(_)
\* the loop of lines 85-88: one penalty per entry of the list
total_error_penalty(error_types_list) ==
    IF error_types_list = <<>>
    THEN 0
    ELSE penalty(Head(error_types_list)) + total_error_penalty(Tail(error_types_list))

\* "安全隐患" in error_types_list
has_safety_hazard_in_errors(error_types_list) ==
    \E i \in 1..Len(error_types_list) : error_types_list[i] = SAFETY_HAZARD

\* faulty variant: the >=90 and >=80 floors are applied whatever the severity
threshold_adjust_ignoring_severity(completion_degree, penalty_sum, has_hazard) ==
    LET score == completion_degree - penalty_sum IN
    IF completion_degree >= 95 /\ penalty_sum = 0 THEN 100
    ELSE IF completion_degree >= 90 THEN Max(85, score)
    ELSE IF completion_degree >= 80 THEN Max(75, score)
    ELSE IF completion_degree < 70 THEN Min(score, 60)
    ELSE score

\* faulty variant: the full-marks override starts above 95 instead of at 95
threshold_adjust_strict_95(completion_degree, penalty_sum, has_hazard) ==
    LET score == completion_degree - penalty_sum IN
    IF completion_degree > 95 /\ penalty_sum = 0 THEN 100
    ELSE IF completion_degree >= 90 /\ ~has_hazard THEN Max(85, score)
    ELSE IF completion_degree >= 80 /\ ~has_hazard THEN Max(75, score)
    ELSE IF completion_degree < 70 THEN Min(score, 60)
    ELSE score

\* faulty variant: the cap of the lowest band is missing
threshold_adjust_no_cap(completion_degree, penalty_sum, has_hazard) ==
    LET score == completion_degree - penalty_sum IN
    IF completion_degree >= 95 /\ penalty_sum = 0 THEN 100
    ELSE IF completion_degree >= 90 /\ ~has_hazard THEN Max(85, score)
    ELSE IF completion_degree >= 80 /\ ~has_hazard THEN Max(75, score)
    ELSE score

\* the if/elif chain of lines 95-102, on score = completion_degree - penalty
threshold_adjust(completion_degree, penalty_sum, has_hazard) ==
    LET score == completion_degree - penalty_sum IN
    IF completion_degree >= 95 /\ penalty_sum = 0 THEN 100
    ELSE IF completion_degree >= 90 /\ ~has_hazard THEN Max(85, score)
    ELSE IF completion_degree >= 80 /\ ~has_hazard THEN Max(75, score)
    ELSE IF completion_degree < 70 THEN Min(score, 60)
    ELSE score

\* faulty variant: only the upper clamp is applied
clamp_upper_only(score) == Min(100, score)

\* return max(0, min(100, score))
clamp(score) == Max(0, Min(100, score))

calculate_score(completion_degree, error_types_list) ==
    clamp(threshold_adjust(completion_degree,
                           total_error_penalty(error_types_list),
                           has_safety_hazard_in_errors(error_types_list)))

-----------------------------------------------------------------------------
(* evaluate_all_operations and the two groupby(...)['score'].mean() *)

\* the dict appended to scored_ops for one record, lines 122-129
scored_row(op) ==
    [ employee_id           |-> op.employee_id,
      date                  |-> op.date,
      score                 |-> calculate_score(op.completion_degree, op.error_types),
      operation_description |-> op.operation_description,
      error_types           |-> op.error_types ]

\* faulty variant: the new rows are appended to the DataFrame of the previous pass
evaluate_all_operations_accumulating(operations_data) ==
    individual_op_scores_df \o
        [ i \in 1..Len(operations_data) |-> scored_row(operations_data[i]) ]

\* for op in operations_data: scored_ops.append({...}); empty input gives the
\* empty DataFrame
evaluate_all_operations(operations_data) ==
    [ i \in 1..Len(operations_data) |-> scored_row(operations_data[i]) ]

\* the employee identifiers typed into the form, in ascending string order
EmployeeIds == << "A", "B" >>

\* position of a string in the ascending order of the strings used
StrRank(s) == CHOOSE i \in 1..Len(EmployeeIds) : EmployeeIds[i] = s

RECURSIVE GCD(_, _)
GCD(a, b) == IF b = 0 THEN a ELSE GCD(b, a % b)

RECURSIVE SumSeq(_)
SumSeq(s) == IF s = <<>> THEN 0 ELSE Head(s) + SumSeq(Tail(s))

\* Series.mean() of a non-empty integer column: sum / count
mean(values) ==
    LET total == SumSeq(values)
        g     == GCD(IF total >= 0 THEN total ELSE -total, Len(values))
    IN  [ num |-> total \div g, den |-> Len(values) \div g ]

\* the 'score' column of a frame
ScoreColumn(rows) == [ i \in 1..Len(rows) |-> rows[i].score ]

\* the 'score' column of the group of one employee on one date
DailyGroupScores(df, employee_id, date) ==
    ScoreColumn(SelectSeq(df, LAMBDA r : r.employee_id = employee_id /\ r.date = date))

\* the 'score' column of the group of one date, whoever the employee
DateGroupScores(df, date) ==
    ScoreColumn(SelectSeq(df, LAMBDA r : r.date = date))

\* the 'score' column of the group of one employee
EmployeeGroupScores(df, employee_id) ==
    ScoreColumn(SelectSeq(df, LAMBDA r : r.employee_id = employee_id))

\* groupby sorts the group keys: by employee_id, then by date
DailyKeyLeq(k1, k2) ==
    \/ StrRank(k1.employee_id) < StrRank(k2.employee_id)
    \/ /\ k1.employee_id = k2.employee_id
       /\ k1.date <= k2.date

RECURSIVE SortDailyKeys(_)
SortDailyKeys(keys) ==
    IF keys = {} THEN <<>>
    ELSE LET first == CHOOSE k \in keys : \A o \in keys : DailyKeyLeq(k, o)
         IN  <<first>> \o SortDailyKeys(keys \ {first})

RECURSIVE SortEmployeeKeys(_)
SortEmployeeKeys(keys) ==
    IF keys = {} THEN <<>>
    ELSE LET first == CHOOSE k \in keys : \A o \in keys : StrRank(k) <= StrRank(o)
         IN  <<first>> \o SortEmployeeKeys(keys \ {first})

\* faulty variant: the daily frame is grouped by date alone (one row per date, carrying
\* the first employee seen on it)
daily_groupby_mean_by_date_only(df) ==
    LET dates == { df[i].date : i \in 1..Len(df) }
        keys  == SortDailyKeys({ [ employee_id |->
                                     df[CHOOSE i \in 1..Len(df) :
                                          /\ df[i].date = d
                                          /\ \A j \in 1..Len(df) :
                                               df[j].date = d => i <= j].employee_id,
                                   date |-> d ] : d \in dates })
    IN  [ j \in 1..Len(keys) |->
            [ employee_id     |-> keys[j].employee_id,
              date            |-> keys[j].date,
              daily_avg_score |->
                  mean(DateGroupScores(df, keys[j].date)) ] ]

\* df.groupby(['employee_id', 'date'])['score'].mean().reset_index(), the
\* column renamed to daily_avg_score; the empty DataFrame when df is empty
daily_groupby_mean(df) ==
    LET keys == SortDailyKeys({ [ employee_id |-> df[i].employee_id, date |-> df[i].date ]
                                : i \in 1..Len(df) })
    IN  [ j \in 1..Len(keys) |->
            [ employee_id     |-> keys[j].employee_id,
              date            |-> keys[j].date,
              daily_avg_score |->
                  mean(DailyGroupScores(df, keys[j].employee_id, keys[j].date)) ] ]

\* df.groupby('employee_id')['score'].mean().reset_index(), the column renamed
\* to overall_avg_score; the empty DataFrame when df is empty
overall_groupby_mean(df) ==
    LET keys == SortEmployeeKeys({ df[i].employee_id : i \in 1..Len(df) })
    IN  [ j \in 1..Len(keys) |->
            [ employee_id       |-> keys[j],
              overall_avg_score |->
                  mean(EmployeeGroupScores(df, keys[j])) ] ]

-----------------------------------------------------------------------------
(* The form, the two buttons and the session state *)

\* st.text_input("员工ID"): empty until something is typed
EmployeeIdInputs == { "" } \cup { EmployeeIds[i] : i \in 1..Len(EmployeeIds) }

\* st.date_input: calendar dates, as day numbers
DateInputs == { 1, 2 }

\* st.selectbox over FORMATTED_OPERATION_OPTIONS always holds one of the options
OperationInputs == { FORMATTED_OPERATION_OPTIONS[1] }

\* st.text_input("操作要点备注 (可选)")
RemarkInputs == { "" }

\* st.slider("完成度 (%)", 0, 100, 80): the positions tried
SliderInputs == { 85 }

\* st.multiselect over PREDEFINED_ERROR_OPTIONS: a list of distinct options
\* (here always the one option "未挂标识牌"; the checkbox below decides
\* whether the severe category joins it)
MultiselectInputs == { << PREDEFINED_ERROR_OPTIONS[4] >> }

\* faulty variant: only the operation description is required
form_is_valid_description_only(employee_id, selected_operation_description) ==
    selected_operation_description # ""

\* if employee_id and selected_operation_description
form_is_valid(employee_id, selected_operation_description) ==
    employee_id # "" /\ selected_operation_description # ""

\* faulty variant: the severe category is appended whatever the checkbox says
final_error_types_always_hazard(selected_error_types, has_safety_hazard) ==
    Append(selected_error_types, SAFETY_HAZARD)

\* final_error_types = list(selected_error_types); append "安全隐患" if checked
final_error_types(selected_error_types, has_safety_hazard) ==
    IF has_safety_hazard
    THEN Append(selected_error_types, SAFETY_HAZARD)
    ELSE selected_error_types

Init ==
    /\ operations = <<>>
    /\ individual_op_scores_df = <<>>
    /\ daily_employee_scores_df = <<>>
    /\ overall_employee_scores_df = <<>>
    /\ message = "none"
    /\ arg_completion = 0
    /\ arg_errors = <<>>
    /\ calls = <<>>

\* the form submit handler, lines 238-255
AddRecord(employee_id, operation_date, selected_operation_description, operation_remark, completion_degree, selected_error_types, has_safety_hazard) ==
    /\ IF form_is_valid(employee_id, selected_operation_description)
       THEN /\ Len(operations) < MaxOps
            /\ operations' = Append(operations,
                  [ employee_id               |-> employee_id,
                    date                      |-> operation_date,
                    operation_description     |-> selected_operation_description,
                    operation_remark          |-> operation_remark,
                    completion_degree         |-> completion_degree,
                    error_types               |-> final_error_types(selected_error_types,
                                                                    has_safety_hazard),
                    has_safety_hazard_display |-> IF has_safety_hazard THEN "yes" ELSE "no" ])
            /\ message' = "success_added"
       ELSE /\ operations' = operations
            /\ message' = "warning_required_fields"
    /\ UNCHANGED <<individual_op_scores_df, daily_employee_scores_df,
                   overall_employee_scores_df, arg_completion, arg_errors, calls>>

\* faulty variant: the derived frames survive the reset
ClearAll_keeping_scores ==
    /\ operations' = <<>>
    /\ message' = "none"
    /\ UNCHANGED <<individual_op_scores_df, daily_employee_scores_df,
                   overall_employee_scores_df, arg_completion, arg_errors, calls>>

\* the "清空所有记录" button, lines 277-282; st.rerun() redraws the page
\* without a notice
ClearAll ==
    /\ operations' = <<>>
    /\ individual_op_scores_df' = <<>>
    /\ daily_employee_scores_df' = <<>>
    /\ overall_employee_scores_df' = <<>>
    /\ message' = "none"
    /\ UNCHANGED <<arg_completion, arg_errors, calls>>

\* the "开始评分并生成图表" button, lines 284-305
RunScoring ==
    /\ IF operations = <<>>
       THEN /\ message' = "warning_no_data"
            /\ UNCHANGED <<individual_op_scores_df, daily_employee_scores_df,
                           overall_employee_scores_df>>
       ELSE /\ individual_op_scores_df' = evaluate_all_operations(operations)
            /\ daily_employee_scores_df' =
                   IF individual_op_scores_df' # <<>>
                   THEN daily_groupby_mean(individual_op_scores_df')
                   ELSE <<>>
            /\ overall_employee_scores_df' =
                   IF individual_op_scores_df' # <<>>
                   THEN overall_groupby_mean(individual_op_scores_df')
                   ELSE <<>>
            /\ message' = "success_scored"
    /\ UNCHANGED <<operations, arg_completion, arg_errors, calls>>

Next ==
    \/ \E employee_id \in EmployeeIdInputs, operation_date \in DateInputs,
          selected_operation_description \in OperationInputs,
          operation_remark \in RemarkInputs, completion_degree \in SliderInputs,
          selected_error_types \in MultiselectInputs, has_safety_hazard \in BOOLEAN :
          AddRecord(employee_id, operation_date, selected_operation_description,
                    operation_remark, completion_degree, selected_error_types,
                    has_safety_hazard)
    \/ ClearAll
    \/ RunScoring

Spec == Init /\ [][Next]_vars

-----------------------------------------------------------------------------
(* calculate_score called directly, on any completion degree and any list *)

\* the labels put into the list: three of the table, the severe one among
\* them, and one the table does not know
ErrorLabels == { SAFETY_HAZARD, "waste_disposal", "record_nonstandard", "unknown_label" }

CompletionDegrees == (0 - OutOfRange)..(100 + OutOfRange)

InitScore ==
    /\ operations = <<>>
    /\ individual_op_scores_df = <<>>
    /\ daily_employee_scores_df = <<>>
    /\ overall_employee_scores_df = <<>>
    /\ message = "none"
    /\ arg_completion \in CompletionDegrees
    /\ arg_errors = <<>>
    /\ calls = <<>>

\* one more entry in the caller's list
AppendErrorType(error_type) ==
    /\ Len(arg_errors) < MaxErrLen
    /\ arg_errors' = Append(arg_errors, error_type)
    /\ UNCHANGED <<operations, individual_op_scores_df, daily_employee_scores_df,
                   overall_employee_scores_df, message, arg_completion, calls>>

\* score = calculate_score(completion_degree, error_types_list)
CallCalculateScore ==
    /\ calls' = << [ completion_degree |-> arg_completion,
                     error_types_list  |-> arg_errors,
                     result            |-> calculate_score(arg_completion, arg_errors) ] >>
                \o (IF calls = <<>> THEN <<>> ELSE << calls[1] >>)
    /\ UNCHANGED <<operations, individual_op_scores_df, daily_employee_scores_df,
                   overall_employee_scores_df, message, arg_completion, arg_errors>>

NextScore ==
    \/ \E error_type \in ErrorLabels : AppendErrorType(error_type)
    \/ CallCalculateScore

SpecScore == InitScore /\ [][NextScore]_vars

-----------------------------------------------------------------------------
(* Properties of calculate_score *)

\* C1: every score calculate_score returns is in [0,100], whatever the
\* completion degree (also outside [0,100]) and whatever the list (any length,
\* duplicates, unknown labels); so is every score of the scored operations.
C1_ScoreInRange ==
    /\ \A i \in 1..Len(calls) : calls[i].result \in 0..100
    /\ \A i \in 1..Len(individual_op_scores_df) :
           individual_op_scores_df[i].score \in 0..100

\* a call whose penalty-adjusted value is negative and came back as 0
C1_Witness ==
    \E i \in 1..Len(calls) :
        /\ calls[i].completion_degree
             - total_error_penalty(calls[i].error_types_list) < 0
        /\ Len(calls[i].error_types_list) >= 2
        /\ calls[i].result = 0

\* C2: a completion degree below 70 never scores above 60, whatever the list.
C2_Below70AtMost60 ==
    \A i \in 1..Len(calls) :
        calls[i].completion_degree < 70 => calls[i].result <= 60

\* a call in 61..69 without errors: the cap brought the score down to 60
C2_Witness ==
    \E i \in 1..Len(calls) :
        /\ calls[i].completion_degree \in 61..69
        /\ calls[i].error_types_list = <<>>
        /\ calls[i].result = 60

\* C3: with an empty list the score is 100 for a completion degree in
\* [95,100] and max(85, c) for c in [90,95).
C3_EmptyListHighBands ==
    \A i \in 1..Len(calls) :
        calls[i].error_types_list = <<>> =>
            /\ calls[i].completion_degree \in 95..100 => calls[i].result = 100
            /\ calls[i].completion_degree \in 90..94 =>
                   calls[i].result = Max(85, calls[i].completion_degree)

\* the call at the lower edge of the full-marks band
C3_Witness ==
    \E i \in 1..Len(calls) :
        /\ calls[i].completion_degree = 95
        /\ calls[i].error_types_list = <<>>
        /\ calls[i].result = 100

\* C4: with the severe category in the list and a completion degree in
\* [80,100], no floor of 85 or 75 is applied: the score is
\* max(0, c - total penalty), below 75; and at c = 92 the score with the
\* severe category alone is below the score with no error.
C4_SevereDisablesFloors ==
    /\ \A i \in 1..Len(calls) :
           ( /\ calls[i].completion_degree \in 80..100
             /\ has_safety_hazard_in_errors(calls[i].error_types_list) )
           => /\ calls[i].result =
                     Max(0, calls[i].completion_degree
                              - total_error_penalty(calls[i].error_types_list))
              /\ calls[i].result < 75
    /\ ( /\ Len(calls) = 2
         /\ calls[1].completion_degree = 92
         /\ calls[1].error_types_list = << SAFETY_HAZARD >>
         /\ calls[2].error_types_list = <<>> )
       => calls[1].result < calls[2].result

\* score(92, []) = max(85, 92) = 92 was followed by score(92, [severe]) = 62
C4_Witness ==
    /\ Len(calls) = 2
    /\ calls[1].completion_degree = 92
    /\ calls[1].error_types_list = << SAFETY_HAZARD >>
    /\ calls[1].result = 62
    /\ calls[2].error_types_list = <<>>
    /\ calls[2].result = 92

\* C5: a further entry of the severe category in a list that already holds it
\* does not change the score.
C5_DuplicateSevereSameScore ==
    ( /\ Len(calls) = 2
      /\ has_safety_hazard_in_errors(calls[2].error_types_list)
      /\ calls[1].error_types_list = Append(calls[2].error_types_list, SAFETY_HAZARD) )
    => calls[1].result = calls[2].result

-----------------------------------------------------------------------------
(* Properties of the session *)

\* the rows of the scored operations that fall under a daily row
DailyMembers(row) ==
    { i \in 1..Len(individual_op_scores_df) :
        /\ individual_op_scores_df[i].employee_id = row.employee_id
        /\ individual_op_scores_df[i].date = row.date }

\* the rows of the scored operations that fall under an overall row
OverallMembers(row) ==
    { i \in 1..Len(individual_op_scores_df) :
        individual_op_scores_df[i].employee_id = row.employee_id }

RECURSIVE SumOfScores(_)
SumOfScores(members) ==
    IF members = {} THEN 0
    ELSE LET i == CHOOSE m \in members : TRUE
         IN  individual_op_scores_df[i].score + SumOfScores(members \ {i})

RECURSIVE SumOfDailySizes(_)
\* the sizes of the groups of the first n daily rows, added up
SumOfDailySizes(n) ==
    IF n = 0 THEN 0
    ELSE Cardinality(DailyMembers(daily_employee_scores_df[n])) + SumOfDailySizes(n - 1)

RECURSIVE SumOfOverallSizes(_)
\* the sizes of the groups of the first n overall rows, added up
SumOfOverallSizes(n) ==
    IF n = 0 THEN 0
    ELSE Cardinality(OverallMembers(overall_employee_scores_df[n]))
         + SumOfOverallSizes(n - 1)

\* avg = sum of the members' scores / number of members
IsMeanOf(avg, members) ==
    /\ avg.den > 0
    /\ avg.num * Cardinality(members) = SumOfScores(members) * avg.den

\* C6: the daily rows and the overall rows partition the scored operations:
\* every scored operation falls under exactly one daily row and exactly one
\* overall row, no row is empty, no two rows share a key, the group sizes add
\* up to the number of scored operations, and each row holds the mean of its
\* members' scores.
C6_AggregationIsPartition ==
    LET S == individual_op_scores_df
        D == daily_employee_scores_df
        O == overall_employee_scores_df
    IN  /\ \A i \in 1..Len(S) :
               /\ Cardinality({ j \in 1..Len(D) : i \in DailyMembers(D[j]) }) = 1
               /\ Cardinality({ j \in 1..Len(O) : i \in OverallMembers(O[j]) }) = 1
        /\ \A j \in 1..Len(D) :
               /\ DailyMembers(D[j]) # {}
               /\ IsMeanOf(D[j].daily_avg_score, DailyMembers(D[j]))
               /\ \A k \in 1..Len(D) :
                      ( /\ D[k].employee_id = D[j].employee_id
                        /\ D[k].date = D[j].date ) => k = j
        /\ \A j \in 1..Len(O) :
               /\ OverallMembers(O[j]) # {}
               /\ IsMeanOf(O[j].overall_avg_score, OverallMembers(O[j]))
               /\ \A k \in 1..Len(O) : O[k].employee_id = O[j].employee_id => k = j
        /\ SumOfDailySizes(Len(D)) = Len(S)
        /\ SumOfOverallSizes(Len(O)) = Len(S)

\* scoring has just run on three records of two employees: one daily group
\* holds two operations with the scores 75 and 45, mean 60
C6_Witness ==
    /\ message = "success_scored"
    /\ Len(individual_op_scores_df) = 3
    /\ Len(overall_employee_scores_df) = 2
    /\ Len(daily_employee_scores_df) = 2
    /\ \E j \in 1..Len(daily_employee_scores_df) :
           /\ Cardinality(DailyMembers(daily_employee_scores_df[j])) = 2
           /\ daily_employee_scores_df[j].daily_avg_score = [ num |-> 60, den |-> 1 ]
           /\ \E i \in DailyMembers(daily_employee_scores_df[j]) :
                  individual_op_scores_df[i].score = 45

\* C7: a rejected action changes nothing: no record has an empty employee
\* identifier or an empty operation description, the no-data warning is shown
\* only for an empty store, and a step that ends in a warning leaves the
\* record store and the three derived frames as they were.
C7_RejectedActionChangesNothing ==
    /\ [](\A i \in 1..Len(operations) :
              /\ operations[i].employee_id # ""
              /\ operations[i].operation_description # "")
    /\ [](message = "warning_no_data" => operations = <<>>)
    /\ [][message' \in { "warning_required_fields", "warning_no_data" }
              => UNCHANGED session_state]_vars

\* a submission was rejected while records and scores were present
C7_Witness ==
    /\ message = "warning_required_fields"
    /\ operations # <<>>
    /\ individual_op_scores_df # <<>>
    /\ Len(individual_op_scores_df) < Len(operations)

\* C8: scoring again right after scoring, the record store unchanged, gives
\* the same scored operations, daily averages and overall averages, and
\* leaves the record store alone.
C8_RunScoringIdempotent ==
    [][(message = "success_scored" /\ message' = "success_scored")
           => UNCHANGED session_state]_vars

\* the state a scoring pass leaves, in which the next pass starts (and, the
\* pass being idempotent, ends)
C8_Witness ==
    /\ message = "success_scored"
    /\ Len(operations) >= 2
    /\ Len(individual_op_scores_df) = Len(operations)
    /\ Len(daily_employee_scores_df) >= 2

\* C9: the derived frames are always those of a prefix of the record store:
\* for some k, the scored operations are evaluate_all_operations of the first
\* k records, and the daily and overall frames are the two groupby means of
\* these scored operations; with an empty store all three are empty.
C9_DerivedFromPrefix ==
    /\ \E k \in 0..Len(operations) :
           /\ individual_op_scores_df = evaluate_all_operations(SubSeq(operations, 1, k))
           /\ daily_employee_scores_df = daily_groupby_mean(individual_op_scores_df)
           /\ overall_employee_scores_df = overall_groupby_mean(individual_op_scores_df)
    /\ operations = <<>> =>
           /\ individual_op_scores_df = <<>>
           /\ daily_employee_scores_df = <<>>
           /\ overall_employee_scores_df = <<>>

\* records were added after the last scoring pass: the frames are those of a
\* proper, non-empty prefix
C9_Witness ==
    /\ Len(operations) = 3
    /\ Len(individual_op_scores_df) = 1
    /\ message = "success_added"

RECURSIVE SeverePenalty(_)
\* what the entries of the severe category cost in a list
SeverePenalty(error_types) ==
    IF error_types = <<>> THEN 0
    ELSE (IF Head(error_types) = SAFETY_HAZARD THEN penalty(SAFETY_HAZARD) ELSE 0)
         + SeverePenalty(Tail(error_types))

====
